---- MODULE Spec2Model ----
(***************************************************************************)
(* Model of distance_matching (src/distance_matching.ipynb, lines 144-237):*)
(* the split of the population into treatment and control, the baseline    *)
(* return, and the greedy matching loop with and without replacement.      *)
(*                                                                         *)
(* Python lists and the dicts keyed 0..n-1 are sequences here, so every    *)
(* index is the Python index plus one.  Cosine similarities and the        *)
(* threshold are integers in percent (0.95 is 95).  A Python name that may *)
(* be unbound is <<>> while unbound and <<v>> once it holds v.             *)
(***************************************************************************)
EXTENDS Integers, Sequences, FiniteSets, TLC

\* ------------------------------------------------------------------ bounds
MaxUnits == 4

\* The largest population that is matched twice.
MaxRerunUnits == 3

\* ------------------------------------------------------------------ inputs
\* The rows a population is drawn from: the covariate vector of a post (named
\* by a letter) and the number of upvotes it got.
UnitKinds ==
    { [doc |-> "a", up |-> 0],
      [doc |-> "b", up |-> 0],
      [doc |-> "c", up |-> 1],
      [doc |-> "d", up |-> 1],
      [doc |-> "d", up |-> -1] }

Thresholds == {10, 90}

Distances == {"None", "cosine", "mahalanobis"}

PostIds == <<"t3_1", "t3_2", "t3_3", "t3_4", "t3_5", "t3_6">>

Unbound == <<>>

Bound(v) == <<v>>

IsBound(o) == o # <<>>

Val(o) == o[1]

Range(s) == { s[i] : i \in DOMAIN s }

\* Orders drawn with repetition, as random.choices would draw them.
OrdersWithRepeats(n) == [1..n -> 1..n]

\* sample(range(0, size), size): the orders without repetition.
Perms(n) == { p \in [1..n -> 1..n] : \A i, j \in 1..n : p[i] = p[j] => i = j }

\* ------------------------------------------------------- similarity index
\* What the gensim index answers for the covariate vectors of the model, in
\* percent: cos(a,c) = 0.95, cos(a,d) = 0.10, cos(b,c) = 0.90, cos(b,d) = 0.05.
CosineTable ==
    [ p \in { {"a","c"}, {"a","d"}, {"b","c"}, {"b","d"}, {"a","b"}, {"c","d"} } |->
        CASE p = {"a","c"} -> 95
          [] p = {"a","d"} -> 10
          [] p = {"b","c"} -> 90
          [] p = {"b","d"} -> 5
          [] p = {"a","b"} -> 99
          [] p = {"c","d"} -> 7 ]

Cosine(u, v) == IF u = v THEN 100 ELSE CosineTable[{u, v}]

\* index[vec]: one similarity per treatment row, in treatment order.
Query(idx, vec) == [ i \in 1..Len(idx) |-> Cosine(vec, idx[i]) ]

\* list(enumerate(sims))
Enumerate(s) == [ i \in 1..Len(s) |-> <<i, s[i]>> ]

\* The sort with equal keys reversed, as an unstable or index-descending sort
\* would leave them.
KeyBeforeTiesReversed(e, f) == e[2] >= f[2]

\* key = itemgetter(1), reverse = True: e goes before f when its key is
\* strictly larger; equal keys keep their order (Python's sort is stable, also
\* with reverse = True).
KeyBefore(e, f) == e[2] > f[2]

RECURSIVE InsertSorted(_, _)
InsertSorted(e, l) ==
    IF l = <<>> THEN <<e>>
    ELSE IF KeyBefore(e, Head(l)) THEN <<e>> \o l
    ELSE <<Head(l)>> \o InsertSorted(e, Tail(l))

RECURSIVE Sorted(_)
Sorted(l) ==
    IF l = <<>> THEN <<>>
    ELSE InsertSorted(l[Len(l)], Sorted(SubSeq(l, 1, Len(l) - 1)))

\* ------------------------------------------------------------------ state
VARIABLES
    docs, docToPost, upvotes, threshold, replacement, distance,   \* arguments
    treatment, treatmentToPost, control, controlToPost,
    countTreatment, countControl,
    lookUpControl, index, x, closer, y,
    matched, countUnmatched, similarity, ranking, similarity_return,
    matchedControl, matchedTreament, count_pairs,
    pc, err, ret,
    first,   \* what the caller keeps of an earlier call of distance_matching
    rate     \* the call of return_rate

args == <<docs, docToPost, upvotes, threshold, replacement, distance>>

groups == <<treatment, treatmentToPost, control, controlToPost,
            countTreatment, countControl>>

locals == <<matched, countUnmatched, similarity, ranking, similarity_return,
            matchedControl, matchedTreament, count_pairs, closer, y>>

caller == <<first, rate>>

vars == <<args, groups, lookUpControl, index, x, locals, pc, err, ret, caller>>

\* return_rate not called.
NoRate == [pc |-> "idle"]

Populations == UNION { [1..n -> UnitKinds] : n \in 0..MaxUnits }

Init ==
    /\ \E pop \in Populations :
          /\ docs = [ i \in 1..Len(pop) |-> pop[i].doc ]
          /\ docToPost = [ i \in 1..Len(pop) |-> PostIds[i] ]
          /\ upvotes = [ p \in { PostIds[i] : i \in 1..Len(pop) } |->
                           LET i == CHOOSE j \in 1..Len(pop) : PostIds[j] = p
                           IN  pop[i].up ]
    /\ threshold \in Thresholds
    /\ replacement \in BOOLEAN
    /\ distance \in Distances
    /\ treatment = <<>> /\ treatmentToPost = <<>>
    /\ control = <<>> /\ controlToPost = <<>>
    /\ countTreatment = 0 /\ countControl = 0
    /\ lookUpControl = Unbound /\ index = Unbound
    /\ x = 0 /\ closer = Unbound /\ y = 0
    /\ matched = {} /\ countUnmatched = 0
    /\ similarity = <<>> /\ ranking = <<>> /\ similarity_return = <<>>
    /\ matchedControl = <<>> /\ matchedTreament = <<>> /\ count_pairs = 0
    /\ pc = "split" /\ err = "none" /\ ret = Unbound
    /\ first = Unbound /\ rate = NoRate

\* ------------------------------------------------------------------ split
\* Line 157: a row is a control row when its post got exactly 0 upvotes, and
\* a treatment row otherwise.
IsControlRow(up) == up = 0

\* Lines 156-166, rows i..Len(docs) appended to the groups in g.
RECURSIVE SplitFrom(_, _)
SplitFrom(i, g) ==
    IF i > Len(docs) THEN g
    ELSE IF IsControlRow(upvotes[docToPost[i]])
         THEN SplitFrom(i + 1,
                [g EXCEPT !.control = Append(@, docs[i]),
                          !.controlToPost = Append(@, docToPost[i]),
                          !.countControl = @ + 1])
         ELSE SplitFrom(i + 1,
                [g EXCEPT !.treatment = Append(@, docs[i]),
                          !.treatmentToPost = Append(@, docToPost[i]),
                          !.countTreatment = @ + 1])

NoGroups ==
    [treatment |-> <<>>, treatmentToPost |-> <<>>, control |-> <<>>,
     controlToPost |-> <<>>, countTreatment |-> 0, countControl |-> 0]

Split ==
    /\ pc = "split"
    /\ LET g == SplitFrom(1, NoGroups)
       IN  /\ treatment' = g.treatment
           /\ treatmentToPost' = g.treatmentToPost
           /\ control' = g.control
           /\ controlToPost' = g.controlToPost
           /\ countTreatment' = g.countTreatment
           /\ countControl' = g.countControl
    /\ pc' = "branch"
    /\ UNCHANGED <<args, lookUpControl, index, x, locals, err, ret, caller>>

\* --------------------------------------------------------------- baseline
\* The two groups returned in the wrong order.
BaselineReturnSwapped(ttp, ctp) == <<ctp, ttp>>

\* Line 173: the values of the two dicts, in insertion order.
BaselineReturn(ttp, ctp) == <<ttp, ctp>>

Baseline ==
    /\ pc = "branch"
    /\ distance = "None"
    /\ ret' = Bound(BaselineReturn(treatmentToPost, controlToPost))
    /\ pc' = "done"
    /\ UNCHANGED <<args, groups, lookUpControl, index, x, locals, err, caller>>

\* --------------------------------------------------------------- matching
\* Line 181: size = len(control).
size == Len(control)

\* Lines 176-195: the permutation of the control rows is drawn first; the
\* index is built only for "cosine", and len(treatment[0]) raises IndexError
\* on an empty treatment group.
Prepare ==
    /\ pc = "branch"
    /\ distance # "None"
    /\ \E p \in Perms(size) : lookUpControl' = Bound(p)
    /\ IF distance = "cosine"
       THEN IF treatment = <<>>
            THEN /\ err' = "IndexError"
                 /\ pc' = "done"
                 /\ index' = index
            ELSE /\ index' = Bound(treatment)
                 /\ pc' = "loop"
                 /\ err' = err
       ELSE /\ pc' = "loop"
            /\ UNCHANGED <<index, err>>
    /\ UNCHANGED <<args, groups, x, locals, ret, caller>>

\* The claims consulted under either policy.
UsesClaimsAlways(repl) == TRUE

\* Line 204: the claims are consulted only when replacement == False.
UsesClaims(repl) == repl = FALSE

\* The claims never found.
ClaimedNever(post, m) == FALSE

\* Line 206: the post of the candidate is a key of matched.
Claimed(post, m) == post \in m

\* Lines 206-207: the rank the while loop stops at; Len(cl) + 1 when every
\* candidate is claimed, where closer[y] raises IndexError.
RECURSIVE Scan(_, _, _)
Scan(cl, r, m) ==
    IF r > Len(cl) THEN r
    ELSE IF Claimed(treatmentToPost[cl[r][1]], m) THEN Scan(cl, r + 1, m)
    ELSE r

\* The threshold test dropped.
AcceptAny(sim, thr) == TRUE

\* Line 210: closer[y][1] >= float(threshold).
Accept(sim, thr) == sim >= thr

\* The names the loop body reads and writes, as one record.
Start ==
    [matched |-> {}, countUnmatched |-> 0, similarity |-> <<>>,
     ranking |-> <<>>, similarity_return |-> <<>>, matchedControl |-> <<>>,
     matchedTreament |-> <<>>, count_pairs |-> 0, closer |-> Unbound,
     y |-> 0, err |-> "none"]

Current ==
    [matched |-> matched, countUnmatched |-> countUnmatched,
     similarity |-> similarity, ranking |-> ranking,
     similarity_return |-> similarity_return,
     matchedControl |-> matchedControl, matchedTreament |-> matchedTreament,
     count_pairs |-> count_pairs, closer |-> closer, y |-> y, err |-> err]

\* Lines 198-219, one pass of the loop body for control row c.
Iteration(st, c) ==
    LET cl == IF distance = "cosine"
              THEN Bound(Sorted(Enumerate(Query(Val(index), control[c]))))
              ELSE st.closer
    IN  IF ~IsBound(cl)
        THEN [st EXCEPT !.y = 1, !.err = "NameError"]
        ELSE
          LET l  == Val(cl)
              r  == IF UsesClaims(replacement) THEN Scan(l, 1, st.matched) ELSE 1
              cp == controlToPost[c]
          IN  IF r > Len(l)
              THEN [st EXCEPT !.closer = cl, !.y = r, !.err = "IndexError"]
              ELSE IF Accept(l[r][2], threshold)
              THEN LET tp == treatmentToPost[l[r][1]]
                   IN [st EXCEPT
                         !.closer = cl, !.y = r,
                         !.ranking = (cp :> l[r][2]) @@ @,
                         !.similarity = (cp :> <<tp, l[r][2]>>) @@ @,
                         !.matched = @ \cup {tp},
                         !.similarity_return = Append(@, <<cp, tp>>),
                         !.matchedControl = Append(@, cp),
                         !.matchedTreament = Append(@, tp),
                         !.count_pairs = @ + 1]
              ELSE [st EXCEPT !.closer = cl, !.y = r,
                              !.countUnmatched = @ + 1]

MatchStep ==
    /\ pc = "loop"
    /\ x < size
    /\ LET st == Iteration(Current, Val(lookUpControl)[x + 1])
       IN  /\ matched' = st.matched
           /\ countUnmatched' = st.countUnmatched
           /\ similarity' = st.similarity
           /\ ranking' = st.ranking
           /\ similarity_return' = st.similarity_return
           /\ matchedControl' = st.matchedControl
           /\ matchedTreament' = st.matchedTreament
           /\ count_pairs' = st.count_pairs
           /\ closer' = st.closer
           /\ y' = st.y
           /\ err' = st.err
           /\ IF st.err = "none"
              THEN x' = x + 1 /\ pc' = "loop"
              ELSE x' = x /\ pc' = "done"
    /\ UNCHANGED <<args, groups, lookUpControl, index, ret, caller>>

\* Lines 221-237: the report is printed and the two lists are returned.
Finish ==
    /\ pc = "loop"
    /\ x = size
    /\ ret' = Bound(<<matchedTreament, matchedControl>>)
    /\ pc' = "done"
    /\ UNCHANGED <<args, groups, lookUpControl, index, x, locals, err, caller>>

Next == Split \/ Baseline \/ Prepare \/ MatchStep \/ Finish

Spec == Init /\ [][Next]_vars

\* ----------------------------------------------------- derived quantities
Unsupported == distance \notin {"None", "cosine"}

Returned == pc = "done" /\ err = "none" /\ IsBound(ret)

\* The MatchRecords (control-id, treatment-id, similarity) held by st.
RecordsOf(st) ==
    { <<st.similarity_return[i][1], st.similarity_return[i][2],
        st.similarity[st.similarity_return[i][1]][2]>> :
        i \in 1..Len(st.similarity_return) }

MatchRecords == RecordsOf(Current)

NoDuplicates(s) == \A i, j \in 1..Len(s) : s[i] = s[j] => i = j

\* The similarity of control row c and treatment row t.
SimOf(c, t) == Cosine(control[c], treatment[t])

\* Treatment row t comes before row u in the candidate order of control row
\* c: larger similarity first, equal similarity by smaller treatment index.
Before(c, t, u) ==
    \/ SimOf(c, t) > SimOf(c, u)
    \/ SimOf(c, t) = SimOf(c, u) /\ t < u

UnclaimedRows(m) == { t \in 1..Len(treatment) : treatmentToPost[t] \notin m }

FirstOf(c, rows) == CHOOSE t \in rows : \A u \in rows \ {t} : Before(c, t, u)

\* The whole loop over the processing order p, from the loop's start.
RECURSIVE Run(_, _, _)
Run(st, p, i) ==
    IF i > Len(p) \/ st.err # "none" THEN st
    ELSE Run(Iteration(st, p[i]), p, i + 1)

Outcome(st) == <<RecordsOf(st), st.countUnmatched, st.err>>

\* The step that processed one more control row without raising.
Processed == pc = "loop" /\ x' = x + 1

\* The population of the four-unit scenario, C1, C2, T1, T2 in this order.
Scenario ==
    /\ docs = <<"a", "b", "c", "d">>
    /\ upvotes = [ p \in {"t3_1", "t3_2", "t3_3", "t3_4"} |->
                     IF p \in {"t3_1", "t3_2"} THEN 0 ELSE 1 ]
    /\ threshold = 90
    /\ distance = "cosine"
    /\ lookUpControl = Bound(<<1, 2>>)

\* ----------------------------------------------------------------- claims

\* C1: in a completed run with distance = cosine and replacement = false,
\* whatever the population, the threshold and the processing order, no
\* treatment-id occurs twice in the returned matched-treatment list, and no
\* two MatchRecords name the same treatment-id.
C1_WithoutReplacementInvariant ==
    (Returned /\ distance = "cosine" /\ replacement = FALSE) =>
        /\ NoDuplicates(Val(ret)[1])
        /\ \A r, q \in MatchRecords : r[2] = q[2] => r = q

\* A completed run without replacement in which a control found its best
\* candidate claimed, moved on, and was matched to another treatment.
C1_Witness ==
    /\ Returned /\ distance = "cosine" /\ replacement = FALSE
    /\ Len(Val(ret)[1]) >= 2
    /\ y > 1

\* C2: in a run without replacement, a control processed while every
\* treatment is already claimed raises nothing: it is counted as unmatched
\* and the loop goes on to the next control.
C2_ExhaustedIsGraceful ==
    [][(/\ pc = "loop" /\ x < size
        /\ distance = "cosine" /\ replacement = FALSE
        /\ UnclaimedRows(matched) = {})
       => (/\ err' = "none"
           /\ countUnmatched' = countUnmatched + 1
           /\ x' = x + 1
           /\ pc' = "loop")]_vars

\* C3: every MatchRecord has similarity >= threshold, under either policy
\* and any processing order; and a step whose tested candidate is below the
\* threshold adds no record and adds one to the unmatched counter.
C3_ThresholdInvariant ==
    /\ [](\A r \in MatchRecords : r[3] >= threshold)
    /\ [][(Processed /\ Val(closer')[y'][2] < threshold)
          => (/\ similarity_return' = similarity_return
              /\ matchedControl' = matchedControl
              /\ matchedTreament' = matchedTreament
              /\ similarity' = similarity
              /\ countUnmatched' = countUnmatched + 1)]_vars

\* A completed run that matched one control and left another unmatched
\* because its candidate was below the threshold.
C3_Witness ==
    /\ Returned /\ distance = "cosine"
    /\ MatchRecords # {}
    /\ countUnmatched >= 1
    /\ Val(closer)[y][2] < threshold

\* C4: with a distance other than none and "cosine" the call ends in an
\* UnsupportedDistance error before the permutation is drawn, the index is
\* built or a control is processed, and returns nothing, also when the
\* control group is empty.
C4_UnsupportedRejectedUpFront ==
    Unsupported =>
        /\ ~IsBound(lookUpControl)
        /\ ~IsBound(index)
        /\ x = 0
        /\ ~IsBound(ret)
        /\ pc = "done" => err = "UnsupportedDistance"

\* C5: after the split every unit is in exactly one of Control and
\* Treatment, in Control exactly when its feedback is 0 and in Treatment
\* exactly when its feedback is > 0.
C5_PartitionInvariant ==
    pc # "split" =>
        \A i \in 1..Len(docs) :
            LET p   == docToPost[i]
                inC == p \in Range(controlToPost)
                inT == p \in Range(treatmentToPost)
            IN  /\ inC # inT
                /\ inC <=> upvotes[p] = 0
                /\ inT <=> upvotes[p] > 0

\* C6: with distance = none the call returns the partitioner's two groups
\* as they are, every unit in one of them, for any threshold and replacement
\* value, and draws no permutation, builds no index, queries no similarity
\* and tracks no claim.
C6_BaselinePassThrough ==
    distance = "None" =>
        /\ ~IsBound(lookUpControl) /\ ~IsBound(index) /\ ~IsBound(closer)
        /\ matched = {} /\ x = 0 /\ countUnmatched = 0
        /\ similarity_return = <<>>
        /\ pc = "done" =>
             /\ Returned
             /\ Val(ret) = <<treatmentToPost, controlToPost>>
             /\ Range(Val(ret)[1]) \cup Range(Val(ret)[2]) = Range(docToPost)
             /\ Len(Val(ret)[1]) + Len(Val(ret)[2]) = Len(docs)

\* A baseline return over a population with both groups non-empty.
C6_Witness ==
    /\ pc = "done" /\ distance = "None"
    /\ IsBound(ret)
    /\ Val(ret)[1] # <<>> /\ Val(ret)[2] # <<>>
    /\ Val(ret)[1] # Val(ret)[2]
    /\ replacement = FALSE /\ threshold = 90

\* C7: a run with distance = cosine whose Treatment group or Control group
\* is empty fails and returns nothing; it never completes normally.
C7_EmptyGroupAborts ==
    (pc = "done" /\ distance = "cosine" /\ (treatment = <<>> \/ control = <<>>))
        => (err # "none" /\ ~IsBound(ret))

\* C8: without replacement the candidate tested against the threshold is the
\* first treatment, by similarity descending and then by ascending treatment
\* index, that no earlier-processed control claimed, and a treatment is
\* claimed only when its match is accepted; in the four-unit scenario with
\* C1 processed first the run ends with the one record (C1, T1, 0.95) and
\* one unmatched control.
C8_WithoutReplacementSelection ==
    /\ [][(Processed /\ distance = "cosine" /\ replacement = FALSE)
          => LET c == Val(lookUpControl)[x + 1]
                 t == FirstOf(c, UnclaimedRows(matched))
             IN  /\ matched = Range(matchedTreament)
                 /\ Val(closer')[y'] = <<t, SimOf(c, t)>>
                 /\ matched' = IF SimOf(c, t) >= threshold
                               THEN matched \cup {treatmentToPost[t]}
                               ELSE matched]_vars
    /\ []((Scenario /\ replacement = FALSE /\ pc = "done")
          => (/\ Returned
              /\ MatchRecords = { <<"t3_1", "t3_3", 95>> }
              /\ countUnmatched = 1))

\* The four-unit scenario completed without replacement: C2 found T1 claimed
\* and tested T2.
C8_Witness ==
    /\ Scenario /\ replacement = FALSE /\ Returned
    /\ y = 2
    /\ Val(ret) = << <<"t3_3">>, <<"t3_1">> >>

\* C9: with replacement every control is tested against its rank-0 candidate
\* only, whatever earlier controls matched, so it is matched exactly when its
\* best similarity is >= threshold; in the four-unit scenario both controls
\* match T1: two records, no unmatched control.
C9_WithReplacementSelection ==
    /\ [][(Processed /\ distance = "cosine" /\ replacement = TRUE)
          => LET c  == Val(lookUpControl)[x + 1]
                 t  == FirstOf(c, 1..Len(treatment))
                 cp == controlToPost[c]
             IN  /\ y' = 1
                 /\ Val(closer')[1] = <<t, SimOf(c, t)>>
                 /\ IF SimOf(c, t) >= threshold
                    THEN /\ similarity_return' =
                              Append(similarity_return, <<cp, treatmentToPost[t]>>)
                         /\ similarity'[cp] = <<treatmentToPost[t], SimOf(c, t)>>
                         /\ countUnmatched' = countUnmatched
                    ELSE /\ similarity_return' = similarity_return
                         /\ countUnmatched' = countUnmatched + 1]_vars
    /\ []((Scenario /\ replacement = TRUE /\ pc = "done")
          => (/\ Returned
              /\ MatchRecords = { <<"t3_1", "t3_3", 95>>, <<"t3_2", "t3_3", 90>> }
              /\ matchedTreament = <<"t3_3", "t3_3">>
              /\ countUnmatched = 0))

\* The four-unit scenario completed with replacement: T1 is in two records.
C9_Witness ==
    /\ Scenario /\ replacement = TRUE /\ Returned
    /\ Val(ret) = << <<"t3_3", "t3_3">>, <<"t3_1", "t3_2">> >>

\* C10: with replacement, the set of MatchRecords and the unmatched count of
\* a completed run are those of the run in every other processing order of
\* the same control group.
C10_OrderIndependence ==
    (pc = "done" /\ distance = "cosine" /\ replacement = TRUE /\ IsBound(index))
        => \A p \in Perms(size) :
              Outcome(Run(Start, p, 1)) = <<MatchRecords, countUnmatched, err>>

\* A completed run with replacement over at least two controls, processed in
\* another order than the control group's own, one matched and one not.
C10_Witness ==
    /\ Returned /\ distance = "cosine" /\ replacement = TRUE
    /\ size >= 2
    /\ Val(lookUpControl) # [ i \in 1..size |-> i ]
    /\ MatchRecords # {} /\ countUnmatched >= 1

\* Without replacement the order can matter: a completed run whose records
\* differ from those of another processing order.
OrderDependentWithoutReplacement ==
    /\ Returned /\ distance = "cosine" /\ replacement = FALSE
    /\ \E p \in Perms(size) :
          Outcome(Run(Start, p, 1)) # <<MatchRecords, countUnmatched, err>>

\* ------------------------------------------------------------ second call
\* The claims of the call before, as a name kept outside the function would
\* carry them into the next call.
StaleClaims == matched

\* Line 183: matched = {} on every call.
FreshClaims == {}

\* Line 185: countUnmatched = 0 on every call.
FreshUnmatched == 0

\* What the caller can see of a finished call.
Seen ==
    [order |-> lookUpControl, records |-> MatchRecords,
     countUnmatched |-> countUnmatched, err |-> err, ret |-> ret]

\* The notebook calls distance_matching again on the same docs, docToPost and
\* upvotes (lines 333, 437, 539); here also with the same threshold,
\* replacement and distance.  Every name of the function is local, so the new
\* call starts from lines 147-154 and 176-195 afresh.
Rerun ==
    /\ pc = "done"
    /\ ~IsBound(first)
    /\ first' = Bound(Seen)
    /\ treatment' = <<>> /\ treatmentToPost' = <<>>
    /\ control' = <<>> /\ controlToPost' = <<>>
    /\ countTreatment' = 0 /\ countControl' = 0
    /\ lookUpControl' = Unbound /\ index' = Unbound
    /\ x' = 0 /\ closer' = Unbound /\ y' = 0
    /\ matched' = FreshClaims /\ countUnmatched' = FreshUnmatched
    /\ similarity' = <<>> /\ ranking' = <<>> /\ similarity_return' = <<>>
    /\ matchedControl' = <<>> /\ matchedTreament' = <<>> /\ count_pairs' = 0
    /\ pc' = "split" /\ err' = "none" /\ ret' = Unbound
    /\ UNCHANGED <<args, rate>>

\* Lines 176-195 in the first call: sample draws any order.
PrepareFirst == ~IsBound(first) /\ Prepare

\* Lines 176-195 in the second call, with the random generator seeded as for
\* the first: sample draws the order of the first call again.
PrepareFixed ==
    /\ IsBound(first)
    /\ Prepare
    /\ lookUpControl' = Val(first).order

NextRerun ==
    Split \/ Baseline \/ PrepareFirst \/ PrepareFixed \/ MatchStep \/ Finish \/ Rerun

InitRerun == Init /\ Len(docs) <= MaxRerunUnits

SpecRerun == InitRerun /\ [][NextRerun]_vars

\* C11: with the processing order and the inputs fixed, a second call ends
\* as the first did, under either policy: same MatchRecords, same unmatched
\* count, same returned lists (or the same error); and the second call starts
\* with an empty claimed set and a zero counter, whatever the first claimed.
C11_DeterminismAndIsolation ==
    IsBound(first) =>
        /\ (pc \in {"split", "branch"} \/ (pc = "loop" /\ x = 0)) =>
               /\ matched = {}
               /\ countUnmatched = 0
               /\ similarity_return = <<>>
        /\ pc = "done" => Seen = Val(first)

\* A second call without replacement has ended, after a first call that
\* claimed a treatment and left a control unmatched.
C11_Witness ==
    /\ IsBound(first) /\ Returned
    /\ distance = "cosine" /\ replacement = FALSE
    /\ Val(first).records # {}
    /\ Val(first).countUnmatched >= 1
    /\ size >= 2

\* ------------------------------------------------------------ return_rate
\* Numbers of return_rate are fractions <<numerator, denominator>> with a
\* positive denominator.
Whole(n) == <<n, 1>>

Minus(a, b) == <<a[1] * b[2] - b[1] * a[2], a[2] * b[2]>>

\* A division that answers 0 for a zero divisor instead of raising.
DivideOrZero(a, b) ==
    IF b[1] = 0 THEN Bound(Whole(0))
    ELSE Bound(IF b[1] > 0 THEN <<a[1] * b[2], a[2] * b[1]>>
                           ELSE <<0 - a[1] * b[2], 0 - a[2] * b[1]>>)

\* a / b on Python floats: Unbound when b is zero (ZeroDivisionError is
\* raised and nothing is assigned), the quotient otherwise.
Divide(a, b) ==
    IF b[1] = 0 THEN Unbound
    ELSE Bound(IF b[1] > 0 THEN <<a[1] * b[2], a[2] * b[1]>>
                           ELSE <<0 - a[1] * b[2], 0 - a[2] * b[1]>>)

\* Lines 261-267: the users of the list whose outcome is the string "true",
\* counted with their repetitions.
CountReturns(users, returns) ==
    Cardinality({ i \in 1..Len(users) : returns[users[i]] = "true" })

RateUsers == { PostIds[i] : i \in 1..MaxUnits }

\* The members of group g in id order.
RECURSIVE GroupList(_, _, _)
GroupList(assign, g, i) ==
    IF i > MaxUnits THEN <<>>
    ELSE (IF assign[PostIds[i]] = g THEN <<PostIds[i]>> ELSE <<>>)
         \o GroupList(assign, g, i + 1)

\* The calls of return_rate: two disjoint lists of users and the outcome of
\* every user.
RateCalls ==
    { [pc |-> "call",
       treatment |-> GroupList(assign, "treatment", 1),
       control |-> GroupList(assign, "control", 1),
       returns |-> returns,
       treatmentReturn |-> 0, controlReturn |-> 0,
       probTreatmentReturn |-> Unbound, probControlReturn |-> Unbound,
       bothReturn |-> Unbound, neitherReturn |-> Unbound,
       relativeIncrease |-> Unbound, err |-> "none"] :
      assign \in [RateUsers -> {"treatment", "control", "neither"}],
      returns \in [RateUsers -> {"true", "false"}] }

InitRate ==
    /\ rate \in RateCalls
    /\ first = Unbound
    /\ docs = <<>> /\ docToPost = <<>> /\ upvotes = <<>>
    /\ threshold = 90 /\ replacement = FALSE /\ distance = "None"
    /\ treatment = <<>> /\ treatmentToPost = <<>>
    /\ control = <<>> /\ controlToPost = <<>>
    /\ countTreatment = 0 /\ countControl = 0
    /\ lookUpControl = Unbound /\ index = Unbound
    /\ x = 0 /\ closer = Unbound /\ y = 0
    /\ matched = {} /\ countUnmatched = 0
    /\ similarity = <<>> /\ ranking = <<>> /\ similarity_return = <<>>
    /\ matchedControl = <<>> /\ matchedTreament = <<>> /\ count_pairs = 0
    /\ pc = "split" /\ err = "none" /\ ret = Unbound

\* Lines 255-276, the whole call; the first division by zero ends it.
RateResult(r) ==
    LET tR == CountReturns(r.treatment, r.returns)
        cR == CountReturns(r.control, r.returns)
        nT == Len(r.treatment)
        nC == Len(r.control)
        counted == [r EXCEPT !.pc = "done", !.treatmentReturn = tR,
                             !.controlReturn = cR]
        raised(s) == [s EXCEPT !.err = "ZeroDivisionError"]
        pT == Divide(Whole(tR), Whole(nT))
        pC == Divide(Whole(cR), Whole(nC))
    IN  IF ~IsBound(pT) THEN raised(counted)
        ELSE IF ~IsBound(pC)
        THEN raised([counted EXCEPT !.probTreatmentReturn = pT])
        ELSE
          LET both == Divide(Whole(tR + cR), Whole(nT + nC))
              s    == [counted EXCEPT
                         !.probTreatmentReturn = pT,
                         !.probControlReturn = pC,
                         !.bothReturn = both,
                         !.neitherReturn = Bound(Minus(Whole(1), Val(both)))]
              rel  == Divide(Minus(Val(pT), Val(pC)), Val(pC))
          IN  IF ~IsBound(rel) THEN raised(s)
              ELSE [s EXCEPT !.relativeIncrease = rel]

ReturnRate ==
    /\ rate.pc = "call"
    /\ rate' = RateResult(rate)
    /\ UNCHANGED <<args, groups, lookUpControl, index, x, locals, pc, err, ret,
                   first>>

NextRate == ReturnRate

SpecRate == InitRate /\ [][NextRate]_vars

\* C12: return_rate ends in a division-by-zero error, and gives no relative
\* increase, whenever the treatment list is empty, the control list is empty
\* or no control user returned; so for Treatment = {A, B}, Control = {C, D}
\* with only A returning.
C12_UndefinedRelativeIncreaseRaises ==
    rate.pc = "done" =>
        ((\/ rate.treatment = <<>>
          \/ rate.control = <<>>
          \/ \A i \in 1..Len(rate.control) : rate.returns[rate.control[i]] # "true")
         => (/\ rate.err = "ZeroDivisionError"
             /\ ~IsBound(rate.relativeIncrease)))

\* The call with Treatment = {A, B}, Control = {C, D} and only A returning
\* has ended: P_t = 1/2, P_c = 0/2, and the last division raised.
C12_Witness ==
    /\ rate.pc = "done"
    /\ rate.treatment = <<"t3_1", "t3_2">>
    /\ rate.control = <<"t3_3", "t3_4">>
    /\ rate.returns["t3_1"] = "true"
    /\ \A u \in {"t3_2", "t3_3", "t3_4"} : rate.returns[u] = "false"
    /\ rate.probTreatmentReturn = Bound(<<1, 2>>)
    /\ rate.probControlReturn = Bound(<<0, 2>>)
    /\ rate.err = "ZeroDivisionError"

\* C13: in a matching-mode run every control is processed once, in the drawn
\* order, and ends in exactly one MatchRecord or in the unmatched count: after
\* every pass of the loop the records and the unmatched count add up to the
\* number of controls processed, at the return to the size of the control
\* group, and the two returned lists have the same length.
C13_ControlAccounting ==
    (distance # "None" /\ pc \in {"loop", "done"}) =>
        LET order == Val(lookUpControl)
            done  == { controlToPost[order[i]] : i \in 1..x }
        IN  /\ order \in [1..size -> 1..size]
            /\ \A i, j \in 1..size : order[i] = order[j] => i = j
            /\ Cardinality(done) = x
            /\ Len(similarity_return) = count_pairs
            /\ Len(matchedControl) = count_pairs
            /\ Len(matchedTreament) = count_pairs
            /\ count_pairs + countUnmatched = x
            /\ NoDuplicates(matchedControl)
            /\ Range(matchedControl) \subseteq done
            /\ countUnmatched = Cardinality(done \ Range(matchedControl))
            /\ \A r \in MatchRecords : r[1] \in Range(matchedControl)
            /\ Returned =>
                 /\ x = size
                 /\ count_pairs + countUnmatched = size
                 /\ Len(Val(ret)[1]) = Len(Val(ret)[2])

\* A returned run over three controls, two of them matched and one counted
\* as unmatched.
C13_Witness ==
    /\ Returned /\ distance = "cosine"
    /\ size = 3 /\ x = 3
    /\ count_pairs = 2 /\ countUnmatched = 1

====
